---------------------------- MODULE Spec2Model ----------------------------
(***************************************************************************)
(* Model of plugins/sql/build.rs: the build script that keeps the          *)
(* generated migrations.rs in sync with a directory of "<v>-<d>.sql"       *)
(* files.  Text is modelled character by character: a string is a tuple of *)
(* one-character strings, so that splitting, trimming, parsing, escaping   *)
(* and line counting are computed as the code computes them.               *)
(***************************************************************************)
EXTENDS Integers, Sequences, FiniteSets, TLC

VARIABLES
    fs,        \* the file system: the migrations directory and migrations.rs
    last,      \* what the most recent run of main did, if no edit came after it
    edits,     \* edits of the file system made so far by the environment
    input,     \* the argument of a function applied on its own
    output     \* its result

vars == <<fs, last, edits, input, output>>

(***************************************************************************)
(* Bounds of the model.                                                    *)
(***************************************************************************)
\* most entries the migrations directory holds
MaxFiles == 2
\* latest clock reading and modification time, in seconds since the epoch
MaxTime == 1
\* most edits the environment makes to the file system
MaxEdits == 1
\* most descriptors handed to write_migrations_rs on its own
MaxMigrations == 2

(***************************************************************************)
(* Option and Result values.                                               *)
(***************************************************************************)
None == [some |-> FALSE, val |-> <<>>]

Some(x) == [some |-> TRUE, val |-> x]

\* SystemTime::UNIX_EPOCH, in seconds
UNIX_EPOCH == 0

(***************************************************************************)
(* Text of the program: the literals of build.rs.                          *)
(***************************************************************************)
\* the header of the artifact, up to the generation date (lines 152-161)
HeaderBeforeDate ==
  <<
    "/","*"," ","\n"," ","*"," ","=","=","=","=","=","=","=","=","=","=","=","=","=","=","=",
    "=","=","=","=","=","=","=","=","=","=","=","=","=","=","=","=","=","=","=","=","=","=","=",
    "=","=","=","=","=","=","=","=","=","=","=","=","=","=","=","=","=","=","=","=","=","\n",
    " ","*"," ","W","A","R","N","I","N","G",":"," ","T","h","i","s"," ","i","s"," ","a","n"," ",
    "a","u","t","o","-","g","e","n","e","r","a","t","e","d"," ","f","i","l","e",".","\n"," ",
    "*"," ","\n"," ","*"," ","D","O"," ","N","O","T"," ","M","O","D","I","F","Y"," ","T","H",
    "I","S"," ","F","I","L","E"," ","M","A","N","U","A","L","L","Y",".","\n"," ","*"," ","\n",
    " ","*"," ","A","n","y"," ","c","h","a","n","g","e","s"," ","m","a","d","e"," ","t","o"," ",
    "t","h","i","s"," ","f","i","l","e"," ","w","i","l","l"," ","b","e"," ","o","v","e","r","w",
    "r","i","t","t","e","n"," ","\n"," ","*"," ","t","h","e"," ","n","e","x","t"," ","t","i",
    "m","e"," ","i","t"," ","i","s"," ","g","e","n","e","r","a","t","e","d",".","\n"," ","*",
    " ","\n"," ","*"," ","G","e","n","e","r","a","t","e","d"," ","o","n",":"," "
  >>

\* the header after the date, the import and the opening of migrations() (lines 161-168)
HeaderAfterDate ==
  <<
    " ","\n"," ","*"," ","=","=","=","=","=","=","=","=","=","=","=","=","=","=","=","=","=",
    "=","=","=","=","=","=","=","=","=","=","=","=","=","=","=","=","=","=","=","=","=","=","=",
    "=","=","=","=","=","=","=","=","=","=","=","=","=","=","=","=","=","=","=","\n"," ","*",
    "/","\n","u","s","e"," ","t","a","u","r","i","_","p","l","u","g","i","n","_","s","q","l",
    ":",":","{","M","i","g","r","a","t","i","o","n",","," ","M","i","g","r","a","t","i","o","n",
    "K","i","n","d","}",";","\n","\n","p","u","b"," ","f","n"," ","m","i","g","r","a","t","i",
    "o","n","s","(",")"," ","-",">"," ","V","e","c","<","M","i","g","r","a","t","i","o","n",">",
    " ","{","\n"," "," "," "," ","v","e","c","!","[","\n"
  >>

\* one entry of the vec![...]: the text around version, description and sql (lines 173-179)
EntryBeforeVersion ==
  <<
    " "," "," "," "," "," "," "," ","M","i","g","r","a","t","i","o","n"," ","{","\n"," "," ",
    " "," "," "," "," "," "," "," "," "," ","v","e","r","s","i","o","n",":"," "
  >>

EntryBeforeDescription ==
  <<
    ",","\n"," "," "," "," "," "," "," "," "," "," "," "," ","d","e","s","c","r","i","p","t",
    "i","o","n",":"," ","\""
  >>

EntryBeforeSql ==
  <<
    "\"",",","\n"," "," "," "," "," "," "," "," "," "," "," "," ","s","q","l",":"," ","\""
  >>

EntryAfterSql ==
  <<
    "\"",",","\n"," "," "," "," "," "," "," "," "," "," "," "," ","k","i","n","d",":"," ","M",
    "i","g","r","a","t","i","o","n","K","i","n","d",":",":","U","p",",","\n"," "," "," "," ",
    " "," "," "," ","}",",","\n"
  >>

\* "    ]\n}\n" (line 184)
Footer ==
  <<
    " "," "," "," ","]","\n","}","\n"
  >>

\* "Migration {", the marker count_migrations_in_file looks for (line 108)
MigrationMarker ==
  <<
    "M","i","g","r","a","t","i","o","n"," ","{"
  >>

\* ".sql", the suffix trimmed off the description (line 130)
SqlSuffix ==
  <<
    ".","s","q","l"
  >>

\* "sql", the extension of a migration file (lines 81, 118)
SqlExt ==
  <<
    "s","q","l"
  >>

\* i64::MAX, 9223372036854775807, digit by digit
I64MaxDigits ==
  <<
    "9","2","2","3","3","7","2","0","3","6","8","5","4","7","7","5","8","0","7"
  >>

(***************************************************************************)
(* String operations of the standard library, as build.rs uses them.       *)
(***************************************************************************)
\* str::ends_with
EndsWith(s, suffix) ==
    /\ Len(s) >= Len(suffix)
    /\ SubSeq(s, Len(s) - Len(suffix) + 1, Len(s)) = suffix

\* str::contains: pat occurs in s at some position
Contains(s, pat) ==
    \/ pat = <<>>
    \/ \E i \in 1..(Len(s) - Len(pat) + 1) :
           s[i] = pat[1] /\ SubSeq(s, i, i + Len(pat) - 1) = pat

\* str::trim_end_matches: the suffix is removed repeatedly, as long as s ends with it
RECURSIVE TrimEndMatches(_, _)
TrimEndMatches(s, pat) ==
    IF Len(pat) > 0 /\ EndsWith(s, pat)
    THEN TrimEndMatches(SubSeq(s, 1, Len(s) - Len(pat)), pat)
    ELSE s

\* positions of character c in s
Positions(s, c) == {i \in 1..Len(s) : s[i] = c}

SetMin(S) == CHOOSE x \in S : \A y \in S : x <= y

SetMax(S) == CHOOSE x \in S : \A y \in S : x >= y

\* str::splitn(2, c): the text before the first c and everything after it,
\* or the whole text as a single part when c does not occur
Splitn2(s, c) ==
    IF Positions(s, c) = {}
    THEN <<s>>
    ELSE LET i == SetMin(Positions(s, c))
         IN  <<SubSeq(s, 1, i - 1), SubSeq(s, i + 1, Len(s))>>

\* Path::extension of a file name: the text after the last '.', unless the
\* name has no '.', is "..", or its only '.' is its first character
Extension(name) ==
    IF name = <<".", ".">> \/ Positions(name, ".") = {}
    THEN None
    ELSE LET i == SetMax(Positions(name, "."))
         IN  IF i = 1 THEN None ELSE Some(SubSeq(name, i + 1, Len(name)))

\* str::replace('"', "\\\""): every double quote gets a backslash before it
RECURSIVE EscapeQuotes(_)
EscapeQuotes(s) ==
    IF s = <<>>
    THEN <<>>
    ELSE (IF Head(s) = "\"" THEN <<"\\", "\"">> ELSE <<Head(s)>>) \o EscapeQuotes(Tail(s))

\* str::lines: the text cut at every '\n'; a final line ending adds no line
LineStarts(text) == {i \in 1..Len(text) : i = 1 \/ text[i - 1] = "\n"}

\* the last character of the line that starts at `start`: the one before the
\* first '\n' at or after `start`, or the end of the text
LineEnd(text, start) ==
    IF \E j \in start..Len(text) : text[j] = "\n"
    THEN (CHOOSE j \in start..Len(text) :
              /\ text[j] = "\n"
              /\ \A k \in start..(j - 1) : text[k] # "\n") - 1
    ELSE Len(text)

Lines(text) == {<<i, SubSeq(text, i, LineEnd(text, i))>> : i \in LineStarts(text)}

(***************************************************************************)
(* Integers as text: str::parse::<i64> and Display for integers.           *)
(***************************************************************************)
DigitChars == <<"0", "1", "2", "3", "4", "5", "6", "7", "8", "9">>

IsDigit(c) == \E d \in 1..10 : DigitChars[d] = c

DigitVal(c) == (CHOOSE d \in 1..10 : DigitChars[d] = c) - 1

RECURSIVE StripZeros(_)
StripZeros(ds) ==
    IF Len(ds) > 1 /\ Head(ds) = "0" THEN StripZeros(Tail(ds)) ELSE ds

\* a < b for two digit strings of the same length
RECURSIVE DigitsLess(_, _)
DigitsLess(a, b) ==
    /\ a # <<>>
    /\ \/ DigitVal(Head(a)) < DigitVal(Head(b))
       \/ Head(a) = Head(b) /\ DigitsLess(Tail(a), Tail(b))

\* the magnitude ds, with or without a minus sign, does not fit in 64 bits:
\* it exceeds i64::MAX (i64::MAX + 1 when negative)
Overflows(ds, negative) ==
    LET m == StripZeros(ds)
    IN  \/ Len(m) > Len(I64MaxDigits)
        \/ /\ Len(m) = Len(I64MaxDigits)
           /\ DigitsLess(I64MaxDigits, m)
           /\ ~(negative /\ SubSeq(m, 1, Len(m) - 1) = SubSeq(I64MaxDigits, 1, Len(m) - 1)
                         /\ DigitVal(m[Len(m)]) = DigitVal(I64MaxDigits[Len(m)]) + 1)

RECURSIVE DigitsValue(_)
DigitsValue(ds) ==
    IF ds = <<>> THEN 0
    ELSE 10 * DigitsValue(SubSeq(ds, 1, Len(ds) - 1)) + DigitVal(ds[Len(ds)])

\* a faulty variant of ParseI64, for mutation testing: the empty text parses as 0
ParseI64EmptyIsZero(s) ==
    LET signed == s # <<>> /\ Head(s) \in {"+", "-"}
        ds     == IF signed THEN Tail(s) ELSE s
        neg    == signed /\ Head(s) = "-"
    IN  IF (\E i \in 1..Len(ds) : ~IsDigit(ds[i])) \/ Overflows(ds, neg)
        THEN [ok |-> FALSE, val |-> 0]
        ELSE [ok |-> TRUE, val |-> IF neg THEN 0 - DigitsValue(ds) ELSE DigitsValue(ds)]

\* str::parse::<i64>: an optional sign, then one or more decimal digits, in range
ParseI64(s) ==
    LET signed == s # <<>> /\ Head(s) \in {"+", "-"}
        ds     == IF signed THEN Tail(s) ELSE s
        neg    == signed /\ Head(s) = "-"
    IN  IF ds = <<>> \/ (\E i \in 1..Len(ds) : ~IsDigit(ds[i])) \/ Overflows(ds, neg)
        THEN [ok |-> FALSE, val |-> 0]
        ELSE [ok |-> TRUE, val |-> IF neg THEN 0 - DigitsValue(ds) ELSE DigitsValue(ds)]

RECURSIVE NatDigits(_)
NatDigits(n) ==
    IF n < 10 THEN <<DigitChars[n + 1]>>
    ELSE NatDigits(n \div 10) \o <<DigitChars[(n % 10) + 1]>>

\* Display of an integer: decimal digits, '-' before a negative number
FormatInt(n) == IF n < 0 THEN <<"-">> \o NatDigits(0 - n) ELSE NatDigits(n)

(***************************************************************************)
(* The file system.  A directory entry has a name, a content (None when    *)
(* the file cannot be read), a modification time (None when its metadata   *)
(* cannot be read) and `listed`: whether read_dir yields it as Ok.  The    *)
(* artifact migrations.rs has the same fields, and `exists`.               *)
(***************************************************************************)
\* a byte that is not valid UTF-8 (OsStr::to_str fails on a name holding it)
InvalidByte == "<FF>"

Entry(name, content, modified) ==
    [name |-> name, content |-> content, modified |-> modified, listed |-> TRUE]

\* an entry read_dir yields as Err: filter_map(Result::ok) drops it
ErrEntry == [name |-> <<>>, content |-> None, modified |-> None, listed |-> FALSE]

NoArtifact == [exists |-> FALSE, content |-> <<>>, modified |-> None, readable |-> FALSE]

\* the entries both scans keep: read as Ok, with the extension "sql"
IsSqlEntry(entry) == entry.listed /\ Extension(entry.name) = Some(SqlExt)

SqlFiles(dir) == SelectSeq(dir, IsSqlEntry)

(***************************************************************************)
(* count_migrations_in_file: the lines of the artifact that contain        *)
(* "Migration {"; 0 when the artifact cannot be read.                      *)
(***************************************************************************)
count_migrations_in_file(rs) ==
    IF rs.exists /\ rs.readable
    THEN Cardinality({l \in Lines(rs.content) : Contains(l[2], MigrationMarker)})
    ELSE 0

(***************************************************************************)
(* needs_generation (lines 70-103).                                        *)
(***************************************************************************)
\* faulty variants of IsNewer, for mutation testing: `>=` for `>`, and `<` for `>`
IsNewerOrSame(entry, migrations_rs_modified) ==
    entry.modified.some /\ entry.modified.val >= migrations_rs_modified

IsOlder(entry, migrations_rs_modified) ==
    entry.modified.some /\ entry.modified.val < migrations_rs_modified

\* .map(|time| time > migrations_rs_modified).unwrap_or(false)
IsNewer(entry, migrations_rs_modified) ==
    entry.modified.some /\ entry.modified.val > migrations_rs_modified

needs_generation(f) ==
    IF ~f.rs.exists
    THEN TRUE
    ELSE LET migrations_rs_modified ==
                 IF f.rs.modified.some THEN f.rs.modified.val ELSE UNIX_EPOCH
         IN  IF ~f.dirReadable
             THEN TRUE
             ELSE LET sql_files == SqlFiles(f.dir)
                  IN  IF sql_files = <<>>
                      THEN TRUE
                      ELSE LET any_newer ==
                                   \E i \in 1..Len(sql_files) :
                                       IsNewer(sql_files[i], migrations_rs_modified)
                               migrations_count == count_migrations_in_file(f.rs)
                           IN  Len(sql_files) # migrations_count \/ any_newer

(***************************************************************************)
(* generate_migrations_from_directory (lines 115-143).                     *)
(***************************************************************************)
NoError == [kind |-> "", msg |-> ""]

NoMigration == [version |-> 0, description |-> <<>>, sql |-> <<>>, kind |-> ""]

Ok(v) == [ok |-> TRUE, err |-> NoError, val |-> v]

Err(kind, msg, nothing) == [ok |-> FALSE, err |-> [kind |-> kind, msg |-> msg], val |-> nothing]

\* the closure applied to each entry (lines 119-140)
ParseEntry(entry) ==
    IF \E i \in 1..Len(entry.name) : entry.name[i] = InvalidByte
    THEN Err("InvalidData", "Invalid filename string", NoMigration)
    ELSE LET parts == Splitn2(entry.name, "-")
         IN  IF Len(parts) # 2
             THEN Err("InvalidData", "Invalid filename format", NoMigration)
             ELSE LET version_str == parts[1]
                      description == TrimEndMatches(parts[2], SqlSuffix)
                      version     == ParseI64(version_str)
                  IN  IF ~entry.content.some
                      THEN Err("NotFound", "SQL file not found", NoMigration)
                      ELSE IF ~version.ok
                      THEN Err("InvalidData", "Invalid version format", NoMigration)
                      ELSE Ok([version     |-> version.val,
                               description |-> description,
                               sql         |-> entry.content.val,
                               kind        |-> "Up"])

\* a faulty variant of Collect, for mutation testing: bad files are skipped
CollectSkipping(results) ==
    LET good == SelectSeq(results, LAMBDA r : r.ok)
    IN  Ok([i \in 1..Len(good) |-> good[i].val])

\* collect::<Result<Vec<_>, _>>: the first Err in iteration order, or every Ok value
Collect(results) ==
    LET bad == {i \in 1..Len(results) : ~results[i].ok}
    IN  IF bad = {}
        THEN Ok([i \in 1..Len(results) |-> results[i].val])
        ELSE Err(results[SetMin(bad)].err.kind, results[SetMin(bad)].err.msg, <<>>)

generate_migrations_from_directory(f) ==
    IF ~f.dirReadable
    THEN Err("ReadDir", "read_dir failed", <<>>)
    ELSE LET sql_files == SqlFiles(f.dir)
         IN  Collect([i \in 1..Len(sql_files) |-> ParseEntry(sql_files[i])])

(***************************************************************************)
(* write_migrations_rs (lines 145-186).                                    *)
(***************************************************************************)
\* one "Migration { ... }," entry (lines 171-181)
RenderMigration(migration) ==
    LET sql_escaped == EscapeQuotes(migration.sql)
    IN  EntryBeforeVersion \o FormatInt(migration.version)
        \o EntryBeforeDescription \o migration.description
        \o EntryBeforeSql \o sql_escaped \o EntryAfterSql

RECURSIVE RenderMigrations(_)
RenderMigrations(migrations) ==
    IF migrations = <<>> THEN <<>>
    ELSE RenderMigration(Head(migrations)) \o RenderMigrations(Tail(migrations))

\* the whole text of migrations.rs, generated at current_time
RenderContent(current_time, migrations) ==
    HeaderBeforeDate \o FormatInt(current_time) \o HeaderAfterDate
    \o RenderMigrations(migrations) \o Footer

\* what fs::write can do: succeed; fail to open the file (permissions, an
\* invalid path), which leaves it as it was; or fail while writing (disk),
\* after the open has truncated the file and `written` characters went out
WriteFaults == {"none", "open", "write"}

FsWrite(rs, content, current_time, fault, written) ==
    CASE fault = "none" ->
             [ok |-> TRUE,
              rs |-> [exists |-> TRUE, content |-> content,
                      modified |-> Some(current_time),
                      readable |-> IF rs.exists THEN rs.readable ELSE TRUE]]
      [] fault = "open" ->
             [ok |-> FALSE, rs |-> rs]
      [] OTHER ->
             [ok |-> FALSE,
              rs |-> [exists |-> TRUE, content |-> SubSeq(content, 1, written),
                      modified |-> Some(current_time),
                      readable |-> IF rs.exists THEN rs.readable ELSE TRUE]]

\* how much of the content a failed write may have put out: nothing, or half
PartialLengths(content) == {0, Len(content) \div 2}

write_migrations_rs(rs, migrations, current_time, fault, written) ==
    FsWrite(rs, RenderContent(current_time, migrations), current_time, fault, written)

(***************************************************************************)
(* main (lines 34-68).  One run of the build script is one step: it reads  *)
(* the two environment variables, asks needs_generation, and regenerates.  *)
(* `last` keeps what the run did: the functions it called, in order, their *)
(* results, the line it logged, the file system it started from, and the   *)
(* line logged by the run before it when that run was configured and no    *)
(* edit came in between.                                                   *)
(***************************************************************************)
EnvUnset == [some |-> FALSE, val |-> ""]

\* a variable of the environment: not set, set to "", or set to a path
EnvValues == {EnvUnset, Some(""), Some("path")}

\* var(..).unwrap_or_default()
VarOrDefault(v) == IF v.some THEN v.val ELSE ""

EmptyFs == [dirReadable |-> TRUE, dir |-> <<>>, rs |-> NoArtifact]

NoRun ==
    [ran |-> FALSE, migrations_dir |-> EnvUnset, project_dir |-> EnvUnset,
     calls |-> <<>>, needs |-> FALSE, gen |-> Ok(<<>>), wrote |-> FALSE,
     log |-> "", before |-> EmptyFs, prev |-> ""]

Times == 0..MaxTime

\* the record of a run that started from fs
RunRecord(migrations_dir, project_dir, calls, needs, gen, wrote, log) ==
    [ran |-> TRUE, migrations_dir |-> migrations_dir, project_dir |-> project_dir,
     calls |-> calls, needs |-> needs, gen |-> gen, wrote |-> wrote, log |-> log,
     before |-> fs,
     prev |-> IF last.ran /\ last.calls # <<>> THEN last.log ELSE ""]

\* lines 42-45: a path is empty: log and return
MainUnconfigured(migrations_dir, project_dir) ==
    /\ fs' = fs
    /\ last' = RunRecord(migrations_dir, project_dir, <<>>, FALSE, Ok(<<>>), FALSE,
                         "MIGRATIONS_DIR and PROJECT_DIR must be set.")
    /\ UNCHANGED <<edits, input, output>>

\* lines 63-65: needs_generation said no
MainUpToDate(migrations_dir, project_dir) ==
    /\ fs' = fs
    /\ last' = RunRecord(migrations_dir, project_dir, <<"needs_generation">>,
                         FALSE, Ok(<<>>), FALSE,
                         "No need to regenerate migrations.rs")
    /\ UNCHANGED <<edits, input, output>>

\* line 61: the scan or a file failed: log, write nothing
MainScanFails(migrations_dir, project_dir, generated) ==
    /\ fs' = fs
    /\ last' = RunRecord(migrations_dir, project_dir,
                         <<"needs_generation", "generate_migrations_from_directory">>,
                         TRUE, generated, FALSE,
                         "Failed to read migration files")
    /\ UNCHANGED <<edits, input, output>>

\* lines 54-59: the scan succeeded: write the artifact, log the outcome
MainGenerates(migrations_dir, project_dir, current_migrations,
              current_time, fault, written) ==
    /\ LET w == write_migrations_rs(fs.rs, current_migrations.val,
                                    current_time, fault, written)
       IN  /\ fs' = [fs EXCEPT !.rs = w.rs]
           /\ last' = RunRecord(migrations_dir, project_dir,
                                <<"needs_generation",
                                  "generate_migrations_from_directory",
                                  "write_migrations_rs">>,
                                TRUE, current_migrations, w.ok,
                                IF w.ok THEN "Successfully generated migrations.rs"
                                        ELSE "Failed to write migrations.rs")
    /\ UNCHANGED <<edits, input, output>>

\* lines 52-65: the paths are set
MainConfigured(migrations_dir, project_dir) ==
    IF ~needs_generation(fs)
    THEN MainUpToDate(migrations_dir, project_dir)
    ELSE LET generated == generate_migrations_from_directory(fs)
         IN  IF ~generated.ok
             THEN MainScanFails(migrations_dir, project_dir, generated)
             ELSE \E current_time \in Times, fault \in WriteFaults :
                      \E written \in (IF fault = "write"
                                      THEN PartialLengths(RenderContent(current_time,
                                                                        generated.val))
                                      ELSE {0}) :
                          MainGenerates(migrations_dir, project_dir, generated,
                                        current_time, fault, written)

\* a faulty variant of main, for mutation testing: `&&` for `||` in line 42
MainRequiresBothEmpty ==
    \E migrations_dir \in EnvValues, project_dir \in EnvValues :
        IF VarOrDefault(migrations_dir) = "" /\ VarOrDefault(project_dir) = ""
        THEN MainUnconfigured(migrations_dir, project_dir)
        ELSE MainConfigured(migrations_dir, project_dir)

main ==
    \E migrations_dir \in EnvValues, project_dir \in EnvValues :
        IF VarOrDefault(migrations_dir) = "" \/ VarOrDefault(project_dir) = ""
        THEN MainUnconfigured(migrations_dir, project_dir)
        ELSE MainConfigured(migrations_dir, project_dir)

(***************************************************************************)
(* The environment of the build: the files the migrations directory may    *)
(* hold, and what happens to the file system between two builds.           *)
(***************************************************************************)
\* "1-a.sql"
Name1A == <<"1","-","a",".","s","q","l">>

\* "2-b.sql"
Name2B == <<"2","-","b",".","s","q","l">>

\* "x-c.sql"
NameXC == <<"x","-","c",".","s","q","l">>

\* "3-d.sql"
Name3D == <<"3","-","d",".","s","q","l">>

\* "e.sql"
NameE == <<"e",".","s","q","l">>

\* "n.txt"
NameTxt == <<"n",".","t","x","t">>

\* "a"
SqlPlain == <<"a">>

\* "Migration {": a body that holds the marker text
SqlWithMarker == <<"M","i","g","r","a","t","i","o","n"," ","{">>

\* the files of the model: a good one, one whose body holds the marker, one
\* with a non-numeric version, one that cannot be read, one without the
\* separator, and one that is no .sql file
Files ==
    {[name |-> Name1A,  content |-> Some(SqlPlain)],
     [name |-> Name2B,  content |-> Some(SqlWithMarker)],
     [name |-> NameXC,  content |-> Some(SqlPlain)],
     [name |-> Name3D,  content |-> None],
     [name |-> NameE,   content |-> Some(SqlPlain)],
     [name |-> NameTxt, content |-> Some(SqlPlain)]}

\* a modification time, or None when the metadata cannot be read
Modifieds == {None} \cup {Some(t) : t \in Times}

Entries == {Entry(f.name, f.content, m) : f \in Files, m \in Modifieds} \cup {ErrEntry}

\* a directory lists no name twice
DistinctNames(dir) ==
    \A i, j \in 1..Len(dir) :
        (i # j /\ dir[i].listed /\ dir[j].listed) => dir[i].name # dir[j].name

Dirs ==
    {dir \in UNION {[1..n -> Entries] : n \in 0..MaxFiles} : DistinctNames(dir)}

InsertAt(s, i, x) == SubSeq(s, 1, i - 1) \o <<x>> \o SubSeq(s, i, Len(s))

RemoveAt(s, i) == SubSeq(s, 1, i - 1) \o SubSeq(s, i + 1, Len(s))

Init ==
    /\ fs \in [dirReadable : BOOLEAN, dir : Dirs, rs : {NoArtifact}]
    /\ \A i \in 1..Len(fs.dir) : fs.dir[i].listed => fs.dir[i].modified = Some(UNIX_EPOCH)
    /\ last = NoRun
    /\ edits = 0
    /\ input = <<>>
    /\ output = <<>>

Edited ==
    /\ edits < MaxEdits
    /\ edits' = edits + 1
    /\ last' = NoRun
    /\ UNCHANGED <<input, output>>

\* a file appears in the directory, anywhere in its iteration order
AddFile ==
    /\ Len(fs.dir) < MaxFiles
    /\ \E entry \in Entries, i \in 1..(Len(fs.dir) + 1) :
           /\ DistinctNames(InsertAt(fs.dir, i, entry))
           /\ fs' = [fs EXCEPT !.dir = InsertAt(fs.dir, i, entry)]
    /\ Edited

RemoveFile ==
    /\ \E i \in 1..Len(fs.dir) : fs' = [fs EXCEPT !.dir = RemoveAt(fs.dir, i)]
    /\ Edited

\* a file is modified: its modification time changes
TouchFile ==
    /\ \E i \in 1..Len(fs.dir), m \in Modifieds :
           /\ fs.dir[i].listed
           /\ m # fs.dir[i].modified
           /\ fs' = [fs EXCEPT !.dir[i].modified = m]
    /\ Edited

\* the directory becomes unreadable, or readable again
ChmodDir ==
    /\ fs' = [fs EXCEPT !.dirReadable = ~fs.dirReadable]
    /\ Edited

RemoveArtifact ==
    /\ fs.rs.exists
    /\ fs' = [fs EXCEPT !.rs = NoArtifact]
    /\ Edited

\* the artifact's permissions or modification time change
ChangeArtifact ==
    /\ fs.rs.exists
    /\ \E r \in BOOLEAN, m \in Modifieds :
           /\ <<r, m>> # <<fs.rs.readable, fs.rs.modified>>
           /\ fs' = [fs EXCEPT !.rs.readable = r, !.rs.modified = m]
    /\ Edited

Next ==
    \/ main
    \/ AddFile
    \/ RemoveFile
    \/ TouchFile
    \/ ChmodDir
    \/ RemoveArtifact
    \/ ChangeArtifact

Spec == Init /\ [][Next]_vars

(***************************************************************************)
(* The filename parser on its own.  A file is named "<v>-<d>.sql" from a   *)
(* version text v and a description d; the table says, for each version    *)
(* text, whether it writes a signed 64-bit integer and which one, and      *)
(* whether the text before the first '-' of the name does.  The file is    *)
(* scanned alone, or beside a well-formed file.                            *)
(***************************************************************************)
VersionTexts ==
    {[text |-> <<"1">>,
      isInt |-> TRUE, val |-> 1, prefixIsInt |-> TRUE],
     [text |-> <<"1","2">>,
      isInt |-> TRUE, val |-> 12, prefixIsInt |-> TRUE],
     [text |-> <<"0","0","7">>,
      isInt |-> TRUE, val |-> 7, prefixIsInt |-> TRUE],
     [text |-> <<"+","7">>,
      isInt |-> TRUE, val |-> 7, prefixIsInt |-> TRUE],
     [text |-> <<"0">>,
      isInt |-> TRUE, val |-> 0, prefixIsInt |-> TRUE],
     [text |-> <<"-","5">>,
      isInt |-> TRUE, val |-> -5, prefixIsInt |-> FALSE],
     [text |-> <<"x">>,
      isInt |-> FALSE, val |-> 0, prefixIsInt |-> FALSE],
     [text |-> <<>>,
      isInt |-> FALSE, val |-> 0, prefixIsInt |-> FALSE],
     [text |-> <<"1","x">>,
      isInt |-> FALSE, val |-> 0, prefixIsInt |-> FALSE],
     [text |-> <<"9","2","2","3","3","7","2","0","3","6","8","5","4","7","7","5","8","0","8">>,
      isInt |-> FALSE, val |-> 0, prefixIsInt |-> FALSE]}

\* "a", "a-b", "a.b", "a.sql", "" and a description that is not valid UTF-8
Descriptions ==
    {<<"a">>, <<"a","-","b">>, <<"a",".","b">>, <<"a",".","s","q","l">>, <<>>, <<"a", InvalidByte>>}

\* a description as a Rust string: valid UTF-8
IsString(d) == \A i \in 1..Len(d) : d[i] # InvalidByte

\* the body "a\"b", with a double quote in it
SqlQuoted == <<"a","\"","b">>

\* unreadable, or one of two bodies
Contents == {None, Some(SqlPlain), Some(SqlQuoted)}

\* "9-z.sql", the well-formed neighbour
NameGood == <<"9","-","z",".","s","q","l">>

GoodEntry == Entry(NameGood, Some(SqlPlain), Some(UNIX_EPOCH))

FileName(v, d) == v.text \o <<"-">> \o d \o SqlSuffix

ParseInputs ==
    {[v |-> v, d |-> d,
      subject |-> Entry(FileName(v, d), c, Some(UNIX_EPOCH)),
      at |-> k.at, dir |-> k.dir]
        : v \in VersionTexts, d \in Descriptions, c \in Contents,
          k \in {[at |-> 1, dir |-> <<"subject">>],
                 [at |-> 1, dir |-> <<"subject", "good">>],
                 [at |-> 2, dir |-> <<"good", "subject">>]}}

\* the directory of a parser input: the subject and, maybe, the neighbour
InputDir(in) ==
    [i \in 1..Len(in.dir) |-> IF in.dir[i] = "subject" THEN in.subject ELSE GoodEntry]

NotApplied == [done |-> FALSE, parsed |-> Ok(NoMigration), batch |-> Ok(<<>>)]

InitParse ==
    /\ input \in ParseInputs
    /\ output = NotApplied
    /\ fs = [EmptyFs EXCEPT !.dir = InputDir(input)]
    /\ last = NoRun
    /\ edits = 0

\* the closure on the subject, and the whole scan of its directory
ParseStep ==
    /\ ~output.done
    /\ output' = [done   |-> TRUE,
                  parsed |-> ParseEntry(input.subject),
                  batch  |-> generate_migrations_from_directory(fs)]
    /\ UNCHANGED <<fs, last, edits, input>>

NextParse == ParseStep

SpecParse == InitParse /\ [][NextParse]_vars

(***************************************************************************)
(* The artifact generator on its own: a list of descriptors is written to  *)
(* an empty project, then the entries of the written text are counted.     *)
(***************************************************************************)
\* bodies: empty, a, a"b, one backslash, a\"b, the marker text, and two lines
SqlBodies ==
    {<<>>, SqlPlain, SqlQuoted, <<"\\">>, <<"a","\\","\"","b">>, SqlWithMarker, <<"a","\n","b">>}

\* descriptions: "a" and "Migration {"
RenderDescriptions == {<<"a">>, SqlWithMarker}

RenderVersions == {0 - 3, 12}

Migrations ==
    {[version |-> v, description |-> d, sql |-> s, kind |-> "Up"]
        : v \in RenderVersions, d \in RenderDescriptions, s \in SqlBodies}

RenderInputs ==
    {[migrations |-> m, current_time |-> t]
        : m \in UNION {[1..n -> Migrations] : n \in 0..MaxMigrations}, t \in Times}

NotRendered == [written |-> FALSE, counted |-> FALSE, count |-> 0]

InitRender ==
    /\ input \in RenderInputs
    /\ output = NotRendered
    /\ fs = EmptyFs
    /\ last = NoRun
    /\ edits = 0

\* write_migrations_rs succeeds
WriteStep ==
    /\ ~output.written
    /\ fs' = [fs EXCEPT !.rs = write_migrations_rs(fs.rs, input.migrations,
                                                   input.current_time, "none", 0).rs]
    /\ output' = [output EXCEPT !.written = TRUE]
    /\ UNCHANGED <<last, edits, input>>

\* count_migrations_in_file reads the text back
CountStep ==
    /\ output.written /\ ~output.counted
    /\ output' = [output EXCEPT !.counted = TRUE,
                                !.count = count_migrations_in_file(fs.rs)]
    /\ UNCHANGED <<fs, last, edits, input>>

NextRender == WriteStep \/ CountStep

SpecRender == InitRender /\ [][NextRender]_vars

(***************************************************************************)
(* Properties of the staleness detector and the orchestrator (Spec).       *)
(* While `last.ran` holds no edit has come after the run it records, so fs *)
(* is the file system the run left and last.before the one it started      *)
(* from.                                                                   *)
(***************************************************************************)
NeedsAsked == last.ran /\ last.calls # <<>> /\ last.calls[1] = "needs_generation"

\* the artifact's modification time, the epoch when it cannot be read
ArtifactTime(rs) == IF rs.modified.some THEN rs.modified.val ELSE UNIX_EPOCH

SqlCount(f) == Len(SqlFiles(f.dir))

InSync(f) ==
    /\ f.rs.exists
    /\ f.dirReadable
    /\ count_migrations_in_file(f.rs) = SqlCount(f)

\* C1: when main runs with both paths set, right after a run that wrote the
\* artifact or found it up to date, and nothing was edited in between,
\* needs_generation returns false and the artifact is not rewritten.  Stated
\* for the directories that hold at least one .sql file.
C1_SecondRunUpToDate ==
    (/\ NeedsAsked
     /\ last.prev \in {"Successfully generated migrations.rs",
                       "No need to regenerate migrations.rs"}
     /\ SqlCount(last.before) >= 1)
        => (last.needs = FALSE /\ fs.rs = last.before.rs)

C3_StaleWheneverOutOfSync ==
    (/\ NeedsAsked
     /\ \/ ~last.before.rs.exists
        \/ ~last.before.dirReadable
        \/ SqlCount(last.before) # count_migrations_in_file(last.before.rs)
        \/ \E i \in 1..Len(last.before.dir) :
               /\ IsSqlEntry(last.before.dir[i])
               /\ last.before.dir[i].modified.some
               /\ last.before.dir[i].modified.val > ArtifactTime(last.before.rs))
        => /\ last.needs = TRUE
           /\ Len(last.calls) >= 2
           /\ last.calls[2] = "generate_migrations_from_directory"

\* a run found the artifact in place, in step with the directory by count,
\* and one file newer than it
C3_Witness ==
    /\ NeedsAsked
    /\ InSync(last.before)
    /\ SqlCount(last.before) = 1
    /\ last.before.rs.modified = Some(0)
    /\ \E i \in 1..Len(last.before.dir) :
           IsSqlEntry(last.before.dir[i]) /\ last.before.dir[i].modified = Some(1)
    /\ last.needs = TRUE

\* a run found the artifact in place and the directory unreadable
C3_WitnessUnreadable ==
    /\ NeedsAsked
    /\ last.before.rs.exists
    /\ ~last.before.dirReadable
    /\ last.needs = TRUE
    /\ last.log = "Failed to read migration files"

\* C8: a run with MIGRATIONS_DIR or PROJECT_DIR unset or empty logs the
\* configuration error, calls none of needs_generation,
\* generate_migrations_from_directory and write_migrations_rs, and leaves the
\* artifact, present or absent, as it was.
C8_MissingConfigurationDoesNothing ==
    (/\ last.ran
     /\ \/ last.migrations_dir \in {EnvUnset, Some("")}
        \/ last.project_dir \in {EnvUnset, Some("")})
        => /\ last.log = "MIGRATIONS_DIR and PROJECT_DIR must be set."
           /\ last.calls = <<>>
           /\ fs = last.before

\* a run with only PROJECT_DIR unset, an artifact in place
C8_Witness ==
    /\ last.ran
    /\ last.migrations_dir = Some("path")
    /\ last.project_dir = EnvUnset
    /\ last.before.rs.exists
    /\ fs.rs = last.before.rs
    /\ last.calls = <<>>

\* a .sql file that cannot become a descriptor: no separator in its name, a
\* version that is no integer, or a content that cannot be read
FailingFile(entry) ==
    /\ IsSqlEntry(entry)
    /\ entry.name \in {NameE, NameXC} \/ ~entry.content.some

\* C9: in a run where regeneration is required and the directory is read, if
\* any .sql file fails to parse or read, generate_migrations_from_directory
\* returns an error and no descriptor, write_migrations_rs is not called, and
\* the artifact is left as it was (absent if it was absent).
C9_FirstFailureAbortsTheBatch ==
    (/\ NeedsAsked
     /\ last.needs
     /\ last.before.dirReadable
     /\ \E i \in 1..Len(last.before.dir) : FailingFile(last.before.dir[i]))
        => /\ ~last.gen.ok
           /\ last.gen.val = <<>>
           /\ last.calls = <<"needs_generation", "generate_migrations_from_directory">>
           /\ last.log = "Failed to read migration files"
           /\ fs = last.before

\* a run over a good file followed by a failing one, with no artifact yet
C9_Witness ==
    /\ NeedsAsked
    /\ last.needs
    /\ last.before.dirReadable
    /\ Len(last.before.dir) = 2
    /\ last.before.dir[1].name = Name1A
    /\ FailingFile(last.before.dir[2])
    /\ ~last.gen.ok
    /\ ~last.before.rs.exists
    /\ ~fs.rs.exists

\* C10 (as claimed): when write_migrations_rs fails, the error is logged and
\* an artifact that existed before the run has its content unchanged.
C10_FailedWriteKeepsOldArtifact ==
    (/\ last.ran
     /\ Len(last.calls) = 3
     /\ ~last.wrote
     /\ last.before.rs.exists)
        => /\ last.log = "Failed to write migrations.rs"
           /\ fs.rs.exists
           /\ fs.rs.content = last.before.rs.content

(***************************************************************************)
(* Properties of the filename parser (SpecParse).                          *)
(***************************************************************************)
\* C5: for a readable file named "<v>-<d>.sql", v a signed 64-bit integer in
\* base 10 and d any string, the parser yields the descriptor with version v,
\* description d, the file's content as sql and kind Up, and so does the scan
\* of the directory at the file's place.  Stated for the versions written
\* without a minus sign.
C5_ValidNameParses ==
    (/\ output.done
     /\ input.v.isInt
     /\ input.v.prefixIsInt
     /\ IsString(input.d)
     /\ input.subject.content.some)
        => /\ output.parsed.ok
           /\ output.parsed.val = [version     |-> input.v.val,
                                   description |-> input.d,
                                   sql         |-> input.subject.content.val,
                                   kind        |-> "Up"]
           /\ output.batch.ok
           /\ output.batch.val[input.at] = output.parsed.val

InvalidVersion == [kind |-> "InvalidData", msg |-> "Invalid version format"]

C4_CountRoundTrip ==
    output.counted => output.count = Len(input.migrations)

\* where a string literal that opens just before position i ends: at the
\* first '"' not taken by a backslash; 0 when the text ends first
RECURSIVE LiteralEnd(_, _)
LiteralEnd(text, i) ==
    IF i > Len(text) THEN 0
    ELSE IF text[i] = "\"" THEN i
    ELSE IF text[i] = "\\" THEN LiteralEnd(text, i + 2)
    ELSE LiteralEnd(text, i + 1)

\* the position in the artifact of the '"' that opens the sql literal of
\* the k-th entry
SqlLiteralOpen(k) ==
    Len(HeaderBeforeDate) + Len(FormatInt(input.current_time)) + Len(HeaderAfterDate)
    + Len(RenderMigrations(SubSeq(input.migrations, 1, k - 1)))
    + Len(EntryBeforeVersion) + Len(FormatInt(input.migrations[k].version))
    + Len(EntryBeforeDescription) + Len(input.migrations[k].description)
    + Len(EntryBeforeSql)

\* the position of the '"' that closes it, when every '"' of the body has
\* taken one more character
SqlLiteralClose(k) ==
    SqlLiteralOpen(k) + Len(input.migrations[k].sql)
    + Cardinality(Positions(input.migrations[k].sql, "\"")) + 1

\* C6: in the sql literal of every entry, each '"' of the body comes after
\* exactly one backslash, and the literal ends at its closing '"': the body
\* neither ends it early nor leaves it open.
C6_SqlLiteralWellFormed ==
    output.written =>
        \A k \in 1..Len(input.migrations) :
            /\ fs.rs.content[SqlLiteralOpen(k)] = "\""
            /\ \A j \in (SqlLiteralOpen(k) + 1)..(SqlLiteralClose(k) - 1) :
                   fs.rs.content[j] = "\"" =>
                       /\ fs.rs.content[j - 1] = "\\"
                       /\ fs.rs.content[j - 2] # "\\"
            /\ LiteralEnd(fs.rs.content, SqlLiteralOpen(k) + 1) = SqlLiteralClose(k)
====
